---- MODULE Spec2Model ----
(***************************************************************************)
(* Model of the prompt-to-model generator page (frontend/app/page.tsx,     *)
(* component Home): the Three.js viewport effect, handleGenerate with its  *)
(* suspended continuations, the transform handlers, handleExport and the   *)
(* render loop.                                                            *)
(*                                                                         *)
(* Units: lengths of geometry and position are integers (scene units);     *)
(* scale is kept in tenths (10 = 1.0); stored rotation is in degrees and   *)
(* applied rotation in micro-radians; camera coordinates in thousandths.   *)
(***************************************************************************)
EXTENDS Integers, Sequences, FiniteSets, TLC

(* ------------------------------ bounds --------------------------------- *)
(* MaxRequests: requests issued per session.  MaxCalls: handler            *)
(* invocations that issue a request or edit the transform, per session.    *)
(* MaxScenes: scenes built by the scene effect.                            *)
MaxRequests == 3
MaxCalls == 4
MaxScenes == 2
(* MaxMessages: messages sent in one ChatPanel.                            *)
MaxMessages == 2
(* DampingSteps: calls of controls.update() after a drag that still move   *)
(* the camera before the damped rotation has died away.                    *)
DampingSteps == 2

(* ------------------------- program constants --------------------------- *)
ScaleMinTenths == 1
ScaleOneTenths == 10
PiMicro == 3141593
InitialCamera == 30000
TanHalfFovMilli == 767

Null == "<null>"
Axes == {"x", "y", "z"}

(* ------------------------- input alphabets ----------------------------- *)
Prompts == {<<>>, <<" ">>, <<"a">>, <<" ", "a", " ">>}
PositionInputs == {5}
ScaleInputs == {-50, 0, 25}
RotationInputs == {90}
Codes == {"cube(10);", "sphere(5);", "cube(0);"}
ErrorTexts == {"bad prompt", ""}
StlPayloads ==
  {"b64:cube", "b64:plate", "b64:point", "b64:truncated", "not-base64!"}

ValidationMessage == "Please enter a description"
NetworkMessage == "Failed to fetch"
AtobMessage == "The string to be decoded is not correctly encoded."
ParseMessage == "Offset is outside the bounds of the DataView"

(* ------------------------- pure helpers -------------------------------- *)
IsSpace(c) == c = " "

RECURSIVE TrimStart(_)
TrimStart(s) ==
  IF s # <<>> /\ IsSpace(Head(s)) THEN TrimStart(Tail(s)) ELSE s

RECURSIVE TrimEnd(_)
TrimEnd(s) ==
  IF s # <<>> /\ IsSpace(s[Len(s)]) THEN TrimEnd(SubSeq(s, 1, Len(s) - 1)) ELSE s

Trim(s) == TrimEnd(TrimStart(s))

Max2(a, b) == IF a >= b THEN a ELSE b
Abs(a) == IF a < 0 THEN -a ELSE a

Vec(a, b, c) == [x |-> a, y |-> b, z |-> c]
WithAxis(v, axis, value) == [v EXCEPT ![axis] = value]

DegToRad(d) == (d * PiMicro) \div 180
RotationRadians(rot) == Vec(DegToRad(rot.x), DegToRad(rot.y), DegToRad(rot.z))

(* A scale handler that stores the input as it comes.                      *)
ClampScaleNone(value) == value

(* Math.max(0.1, value), in tenths.                                        *)
ClampScale(value) == Max2(ScaleMinTenths, value)

ZeroVec == Vec(0, 0, 0)
OneScale == Vec(ScaleOneTenths, ScaleOneTenths, ScaleOneTenths)

(* atob: fails on input that is not base64, else yields the bytes.         *)
AtobThrows(stl_data) == stl_data = "not-base64!"
Atob(stl_data) ==
  CASE stl_data = "b64:cube" -> "stl:cube"
    [] stl_data = "b64:plate" -> "stl:plate"
    [] stl_data = "b64:point" -> "stl:point"
    [] OTHER -> "stl:short"

(* STLLoader.parse: a buffer shorter than the binary header throws;        *)
(* otherwise the geometry, here its axis-aligned bounding box.             *)
ParseThrows(bytes) == bytes = "stl:short"
ParseStl(bytes) ==
  CASE bytes = "stl:cube" -> [min |-> Vec(0, 0, 0), max |-> Vec(10, 10, 10)]
    [] bytes = "stl:point" -> [min |-> Vec(3, 3, 3), max |-> Vec(3, 3, 3)]
    [] OTHER -> [min |-> Vec(2, 2, 0), max |-> Vec(22, 6, 2)]

BoxCenter(box) ==
  Vec((box.min.x + box.max.x) \div 2, (box.min.y + box.max.y) \div 2,
      (box.min.z + box.max.z) \div 2)
Translate(box, d) ==
  [min |-> Vec(box.min.x + d.x, box.min.y + d.y, box.min.z + d.z),
   max |-> Vec(box.max.x + d.x, box.max.y + d.y, box.max.z + d.z)]
CenterGeometry(box) ==
  LET c == BoxCenter(box) IN Translate(box, Vec(-c.x, -c.y, -c.z))
BoxSize(box) ==
  Vec(box.max.x - box.min.x, box.max.y - box.min.y, box.max.z - box.min.z)
MaxDim(size) == Max2(size.x, Max2(size.y, size.z))

(* cameraZ = |maxDim / 2 / tan(fov/2)| * 1.5, in thousandths.              *)
FitDistance(maxDim) ==
  (Abs((maxDim * 1000 * 1000) \div (2 * TanHalfFovMilli)) * 3) \div 2


(* ------------------------------ state ---------------------------------- *)
VARIABLES
  mounted,          \* the Home component instance is mounted
  prompt, generatedCode, loading, error, currentStlData,
  position, scale, rotation, isDarkMode,
  sceneRef, cameraRef, controlsRef, meshRef,
  scenes,           \* scene id -> generated meshes among the scene's children
  renderers,        \* scene effect instance -> its renderer and frame chain
  cameras,          \* camera id -> camera position
  sphericalDelta,   \* controls id -> rotation the controls have yet to apply
  meshes,           \* mesh id -> the THREE.Mesh built by handleGenerate
  pending,          \* suspended handleGenerate invocations (await fetch)
  requestCount,     \* number of fetch calls issued
  edits,            \* number of transform handler invocations
  lastFrame,        \* the most recent renderer.render call
  download,         \* <<file>> of the most recent link.click(), <<>> before it
  alert,            \* the message of the most recent window.alert
  lastSuccess,      \* the response of the most recent generation that succeeded
  isLoading, user,  \* useUser(): the session fetch is running; the profile
  route,            \* the pathname the router shows
  messages, input   \* ChatPanel state

stateVars == <<prompt, generatedCode, loading, error, currentStlData>>
transformVars == <<position, scale, rotation>>
refVars == <<sceneRef, cameraRef, controlsRef, meshRef>>
exportVars == <<download, alert>>
pageVars == <<isLoading, user, route, messages, input>>
viewVars == <<scenes, renderers, cameras>>
vars == <<mounted, prompt, generatedCode, loading, error, currentStlData,
          position, scale, rotation, isDarkMode,
          sceneRef, cameraRef, controlsRef, meshRef,
          scenes, renderers, cameras, meshes, pending, requestCount, edits,
          lastFrame, exportVars, lastSuccess, pageVars, sphericalDelta>>

(* The session has handler invocations left: those that issue a request    *)
(* and those that edit the transform are counted together.                 *)
CallsLeft == requestCount + edits < MaxCalls

Identity == [position |-> ZeroVec, scale |-> OneScale, rotation |-> ZeroVec]

(* No generation has succeeded yet.                                        *)
NoResponse == [stl_data |-> Null, openscad_code |-> ""]

NewRenderer == [disposed |-> FALSE, animating |-> TRUE]

Init ==
  /\ mounted = TRUE
  /\ prompt = <<>>
  /\ generatedCode = ""
  /\ loading = FALSE
  /\ error = Null
  /\ currentStlData = Null
  /\ position = ZeroVec
  /\ scale = OneScale
  /\ rotation = ZeroVec
  /\ isDarkMode = TRUE
  /\ sceneRef = 1 /\ cameraRef = 1 /\ controlsRef = 1
  /\ meshRef = 0
  /\ scenes = <<{}>>
  /\ renderers = <<NewRenderer>>
  /\ cameras = <<Vec(InitialCamera, InitialCamera, InitialCamera)>>
  /\ sphericalDelta = <<0>>
  /\ meshes = <<>>
  /\ pending = {}
  /\ requestCount = 0
  /\ edits = 0
  /\ lastFrame = [renderer |-> 1, disposed |-> FALSE]
  /\ download = <<>>
  /\ alert = Null
  /\ lastSuccess = NoResponse
  /\ isLoading = TRUE
  /\ user = Null
  /\ route = "/"
  /\ messages = <<>>
  /\ input = <<>>

(* ----------------------- the scene effect ------------------------------ *)
(* Cleanup of the effect instance that owns renderer i.                    *)
EffectCleanup(rs, i) == [rs EXCEPT ![i].disposed = TRUE]

(* setIsDarkMode(!isDarkMode): the effect's cleanup runs, then the effect  *)
(* builds a new scene, camera, renderer and controls and starts animate(). *)
ToggleTheme ==
  /\ mounted
  /\ Len(scenes) < MaxScenes
  /\ isDarkMode' = ~isDarkMode
  /\ LET n == Len(scenes) + 1 IN
       /\ scenes' = Append(scenes, {})
       /\ cameras' = Append(cameras, Vec(InitialCamera, InitialCamera, InitialCamera))
       /\ sphericalDelta' = Append(sphericalDelta, 0)
       /\ renderers' = Append(EffectCleanup(renderers, sceneRef), NewRenderer)
       /\ sceneRef' = n /\ cameraRef' = n /\ controlsRef' = n
       /\ lastFrame' = [renderer |-> n, disposed |-> FALSE]
  /\ UNCHANGED <<mounted, stateVars, transformVars, meshRef, meshes, pending,
                 requestCount, edits, exportVars, lastSuccess, pageVars>>

(* The component unmounts: only the effect's cleanup runs.                 *)
Unmount ==
  /\ mounted
  /\ mounted' = FALSE
  /\ renderers' = EffectCleanup(renderers, sceneRef)
  /\ UNCHANGED <<stateVars, transformVars, isDarkMode, refVars, scenes, cameras,
                 meshes, pending, requestCount, edits, lastFrame, exportVars, lastSuccess,
                 pageVars, sphericalDelta>>

(* renderer.render updates the world matrices of the scene it draws.       *)
UpdateMatrixWorld(m) ==
  [m EXCEPT !.matrixWorld =
     [position |-> m.position, scale |-> m.scale, rotation |-> m.rotation]]

(* The camera turned about the target by the controls: a quarter turn     *)
(* about the vertical axis stands for every rotation; the distance from    *)
(* the target is kept.                                                     *)
Orbited(v) == Vec(v.z, v.y, -v.x)

(* controls.update() with enableDamping: the rotation still to be applied  *)
(* moves the camera, then decays.                                          *)
ControlsUpdateCamera(v, delta) == IF delta # 0 THEN Orbited(v) ELSE v
ControlsUpdateDelta(delta) == Max2(0, delta - 1)

(* The user drags in the canvas of the current renderer: the pointer       *)
(* handler of the controls records the rotation and applies part of it;    *)
(* with damping the rest is applied by later calls of update().            *)
Orbit ==
  /\ mounted
  /\ controlsRef # 0
  /\ cameras' = [cameras EXCEPT ![controlsRef] = Orbited(@)]
  /\ sphericalDelta' = [sphericalDelta EXCEPT ![controlsRef] = DampingSteps]
  /\ UNCHANGED <<mounted, stateVars, transformVars, isDarkMode, refVars, scenes,
                 renderers, meshes, pending, requestCount, edits, lastFrame,
                 exportVars, lastSuccess, pageVars>>

(* One animation frame of the chain started by effect instance i:          *)
(* controls.update(), then renderer.render(scene, camera).                 *)
Frame(i) ==
  /\ renderers[i].animating
  /\ lastFrame' = [renderer |-> i, disposed |-> renderers[i].disposed]
  /\ cameras' = [cameras EXCEPT ![i] = ControlsUpdateCamera(@, sphericalDelta[i])]
  /\ sphericalDelta' = [sphericalDelta EXCEPT ![i] = ControlsUpdateDelta(@)]
  /\ meshes' = [k \in 1..Len(meshes) |->
                  IF k \in scenes[i] THEN UpdateMatrixWorld(meshes[k]) ELSE meshes[k]]
  /\ UNCHANGED <<mounted, stateVars, transformVars, isDarkMode, refVars, scenes,
                 renderers, pending, requestCount, edits, exportVars, lastSuccess,
                 pageVars>>

(* ------------------------ handleGenerate ------------------------------- *)
(* textarea onChange.                                                      *)
SetPrompt(s) ==
  /\ mounted
  /\ prompt # s
  /\ prompt' = s
  /\ UNCHANGED <<mounted, generatedCode, loading, error, currentStlData,
                 transformVars, isDarkMode, refVars, viewVars, meshes, pending,
                 requestCount, edits, lastFrame, exportVars, lastSuccess,
                 pageVars, sphericalDelta>>

(* A body that adds each part of the prior model on its own.               *)
RequestBodyEachPart(p, stl, code) ==
  IF stl # Null /\ code # ""
    THEN [prompt |-> p, current_stl_data |-> stl, current_code |-> code]
    ELSE IF stl # Null
      THEN [prompt |-> p, current_stl_data |-> stl]
      ELSE IF code # "" THEN [prompt |-> p, current_code |-> code]
                        ELSE [prompt |-> p]

(* requestBody: the prompt, and the prior model when both parts are truthy. *)
RequestBody(p, stl, code) ==
  IF stl # Null /\ code # ""
    THEN [prompt |-> p, current_stl_data |-> stl, current_code |-> code]
    ELSE [prompt |-> p]

(* A guard that tests the raw prompt instead of the trimmed one.           *)
PromptIsEmptyUntrimmed(p) == p = <<>>

(* The validation guard at the head of handleGenerate.                     *)
PromptIsEmpty(p) == Trim(p) = <<>>

(* A rejection that also wipes the stored code.                            *)
RejectPromptClearingCode ==
  /\ error' = ValidationMessage
  /\ generatedCode' = ""
  /\ UNCHANGED <<mounted, prompt, loading, currentStlData, transformVars,
                 isDarkMode, refVars, viewVars, meshes, pending, requestCount,
                 edits, lastFrame, exportVars, lastSuccess,
                 pageVars, sphericalDelta>>

(* The validation branch: setError and return.                             *)
RejectPrompt ==
  /\ error' = ValidationMessage
  /\ UNCHANGED <<mounted, prompt, generatedCode, loading, currentStlData,
                 transformVars, isDarkMode, refVars, viewVars, meshes, pending,
                 requestCount, edits, lastFrame, exportVars, lastSuccess,
                 pageVars, sphericalDelta>>

(* From setLoading(true) to the fetch call, where the handler suspends.    *)
StartRequest ==
  /\ requestCount < MaxRequests
  /\ CallsLeft
  /\ loading' = TRUE
  /\ error' = Null
  /\ generatedCode' = ""
  /\ requestCount' = requestCount + 1
  /\ pending' = pending \cup
       {[id |-> requestCount + 1,
         closure |-> [prompt |-> prompt, generatedCode |-> generatedCode,
                      currentStlData |-> currentStlData],
         body |-> RequestBody(prompt, currentStlData, generatedCode)]}
  /\ UNCHANGED <<mounted, prompt, currentStlData, transformVars, isDarkMode,
                 refVars, viewVars, meshes, edits, lastFrame, exportVars,
                 lastSuccess,
                 pageVars, sphericalDelta>>

(* handleGenerate up to its first await, with the values of the render     *)
(* whose closure the handler belongs to.                                   *)
handleGenerate ==
  IF PromptIsEmpty(prompt) THEN RejectPrompt ELSE StartRequest

(* The Generate button: disabled={loading}.                                *)
GenerateButtonEnabled == ~loading

GenerateClick ==
  /\ mounted
  /\ GenerateButtonEnabled
  /\ handleGenerate

(* Enter without Shift in the prompt textarea.                             *)
GenerateKey ==
  /\ mounted
  /\ handleGenerate

(* A catch block that reports the fallback text whatever was thrown.       *)
SetFailureUnknown(msg) ==
  IF mounted
    THEN error' = "Unknown error" /\ loading' = FALSE
    ELSE UNCHANGED <<error, loading>>

(* catch: setError(err.message); finally: setLoading(false).               *)
(* The state setters of an unmounted component have no effect.             *)
SetFailure(msg) ==
  IF mounted
    THEN error' = msg /\ loading' = FALSE
    ELSE UNCHANGED <<error, loading>>

(* A rejected fetch handled without the finally block.                     *)
FetchRejectedNoFinally(r) ==
  /\ r \in pending
  /\ pending' = pending \ {r}
  /\ error' = IF mounted THEN NetworkMessage ELSE error
  /\ UNCHANGED <<mounted, prompt, generatedCode, loading, currentStlData,
                 transformVars, isDarkMode, refVars, viewVars, meshes,
                 requestCount, edits, lastFrame, exportVars, lastSuccess,
                 pageVars, sphericalDelta>>

(* fetch rejects: catch, finally.                                          *)
FetchRejected(r) ==
  /\ r \in pending
  /\ pending' = pending \ {r}
  /\ SetFailure(NetworkMessage)
  /\ UNCHANGED <<mounted, prompt, generatedCode, currentStlData, transformVars,
                 isDarkMode, refVars, viewVars, meshes, requestCount, edits,
                 lastFrame, exportVars, lastSuccess,
                 pageVars, sphericalDelta>>

(* !response.ok: throw new Error(await response.text()); catch, finally.   *)
ResponseNotOk(r, text) ==
  /\ r \in pending
  /\ pending' = pending \ {r}
  /\ SetFailure(text)
  /\ UNCHANGED <<mounted, prompt, generatedCode, currentStlData, transformVars,
                 isDarkMode, refVars, viewVars, meshes, requestCount, edits,
                 lastFrame, exportVars, lastSuccess,
                 pageVars, sphericalDelta>>

(* scene.remove(object): drops the object when it is a child.              *)
SceneRemove(sc, s, m) == [sc EXCEPT ![s] = @ \ {m}]
(* scene.add(object).                                                      *)
SceneAdd(sc, s, m) == [sc EXCEPT ![s] = @ \cup {m}]

(* geometry.dispose() and material.dispose() of the mesh itself.           *)
DisposeMesh(m) == [m EXCEPT !.geometryDisposed = TRUE, !.materialDisposed = TRUE]

(* new THREE.Mesh(geometry, material) with its LineSegments child.         *)
NewMesh(geometry) ==
  [geometry |-> geometry,
   geometryDisposed |-> FALSE, materialDisposed |-> FALSE,
   edgesDisposed |-> FALSE, lineMaterialDisposed |-> FALSE,
   position |-> ZeroVec, scale |-> OneScale, rotation |-> ZeroVec,
   matrixWorld |-> Identity]

(* A replacement that leaves the previous mesh in the scene.               *)
ClearedScenesKeepingMesh == scenes

(* "Clear previous mesh": the scenes and meshes after the block.           *)
ClearedScenes ==
  IF meshRef # 0 /\ sceneRef # 0 THEN SceneRemove(scenes, sceneRef, meshRef) ELSE scenes
ClearedMeshes ==
  IF meshRef # 0 /\ sceneRef # 0
    THEN [meshes EXCEPT ![meshRef] = DisposeMesh(@)]
    ELSE meshes

(* "Fit camera to object": the cameras after the block, which ends with   *)
(* controls.update().                                                      *)
FittedCameras(geometry) ==
  IF sceneRef # 0 /\ cameraRef # 0 /\ controlsRef # 0
    THEN LET cameraZ == FitDistance(MaxDim(BoxSize(geometry)))
         IN [cameras EXCEPT ![cameraRef] =
               ControlsUpdateCamera(Vec(cameraZ, cameraZ, cameraZ),
                                    sphericalDelta[controlsRef])]
    ELSE cameras

(* The rotations left to the controls after the block.                     *)
FittedDeltas ==
  IF sceneRef # 0 /\ cameraRef # 0 /\ controlsRef # 0
    THEN [sphericalDelta EXCEPT ![controlsRef] = ControlsUpdateDelta(@)]
    ELSE sphericalDelta

(* The success responses the endpoint is taken to return.                  *)
ServerData ==
  {[stl_data |-> "b64:cube", openscad_code |-> "cube(10);"],
   [stl_data |-> "b64:plate", openscad_code |-> "sphere(5);"],
   [stl_data |-> "b64:point", openscad_code |-> "cube(0);"],
   [stl_data |-> "b64:truncated", openscad_code |-> "cube(10);"],
   [stl_data |-> "not-base64!", openscad_code |-> "sphere(5);"]}

DecodeFails(data) == AtobThrows(data.stl_data)
ParseFails(data) == ~AtobThrows(data.stl_data) /\ ParseThrows(Atob(data.stl_data))
Decodes(data) == ~DecodeFails(data) /\ ~ParseFails(data)

(* response.ok: the rest of the try block, then finally.                   *)
ResponseOk(r, data) ==
  /\ r \in pending
  /\ pending' = pending \ {r}
  /\ UNCHANGED <<mounted, transformVars, isDarkMode, sceneRef, cameraRef,
                 controlsRef, renderers, requestCount, edits, lastFrame,
                 exportVars, pageVars>>
  /\ IF DecodeFails(data)
       THEN /\ SetFailure(AtobMessage)
            /\ UNCHANGED <<prompt, generatedCode, currentStlData, meshRef, scenes,
                           cameras, sphericalDelta, meshes, lastSuccess>>
       ELSE IF ParseFails(data)
         THEN /\ IF mounted
                   THEN /\ generatedCode' = data.openscad_code
                        /\ currentStlData' = data.stl_data
                        /\ error' = ParseMessage
                        /\ loading' = FALSE
                   ELSE UNCHANGED <<generatedCode, currentStlData, error, loading>>
              /\ scenes' = ClearedScenes
              /\ meshes' = ClearedMeshes
              /\ UNCHANGED <<prompt, meshRef, cameras, sphericalDelta, lastSuccess>>
         ELSE LET geometry == CenterGeometry(ParseStl(Atob(data.stl_data)))
                  mesh == Len(meshes) + 1
              IN /\ IF mounted
                      THEN /\ generatedCode' = data.openscad_code
                           /\ currentStlData' = data.stl_data
                           /\ prompt' = <<>>
                           /\ loading' = FALSE
                           /\ UNCHANGED error
                      ELSE UNCHANGED stateVars
                 /\ meshes' = Append(ClearedMeshes, NewMesh(geometry))
                 /\ meshRef' = mesh
                 /\ scenes' = IF sceneRef # 0
                                THEN SceneAdd(ClearedScenes, sceneRef, mesh)
                                ELSE ClearedScenes
                 /\ cameras' = FittedCameras(geometry)
                 /\ sphericalDelta' = FittedDeltas
                 /\ lastSuccess' = data

(* ------------------------ transform handlers --------------------------- *)
(* A reset that leaves the mesh as it is.                                  *)
ApplyTransformSkipped(ms, pos, scl, rot) == ms

(* mesh.position.set, mesh.scale.set and mesh.rotation.set on the active   *)
(* mesh, if any.                                                           *)
ApplyTransform(ms, pos, scl, rot) ==
  IF meshRef # 0
    THEN [ms EXCEPT ![meshRef].position = pos, ![meshRef].scale = scl,
                    ![meshRef].rotation = RotationRadians(rot)]
    ELSE ms

(* The TRANSFORM panel is rendered only when meshRef.current is set.       *)
TransformPanelShown == mounted /\ meshRef # 0

updatePosition(axis, value) ==
  /\ TransformPanelShown
  /\ CallsLeft
  /\ LET newPos == WithAxis(position, axis, value) IN
       /\ position' = newPos
       /\ meshes' = IF meshRef # 0
                      THEN [meshes EXCEPT ![meshRef].position = newPos]
                      ELSE meshes
  /\ edits' = edits + 1
  /\ UNCHANGED <<mounted, stateVars, scale, rotation, isDarkMode, refVars, viewVars,
                 pending, requestCount, lastFrame, exportVars, lastSuccess,
                 pageVars, sphericalDelta>>

updateScale(axis, value) ==
  /\ TransformPanelShown
  /\ CallsLeft
  /\ LET newScale == WithAxis(scale, axis, ClampScale(value)) IN
       /\ scale' = newScale
       /\ meshes' = IF meshRef # 0
                      THEN [meshes EXCEPT ![meshRef].scale = newScale]
                      ELSE meshes
  /\ edits' = edits + 1
  /\ UNCHANGED <<mounted, stateVars, position, rotation, isDarkMode, refVars,
                 viewVars, pending, requestCount, lastFrame, exportVars, lastSuccess,
                 pageVars, sphericalDelta>>

updateRotation(axis, value) ==
  /\ TransformPanelShown
  /\ CallsLeft
  /\ LET newRot == WithAxis(rotation, axis, value) IN
       /\ rotation' = newRot
       /\ meshes' = IF meshRef # 0
                      THEN [meshes EXCEPT ![meshRef].rotation = RotationRadians(newRot)]
                      ELSE meshes
  /\ edits' = edits + 1
  /\ UNCHANGED <<mounted, stateVars, position, scale, isDarkMode, refVars, viewVars,
                 pending, requestCount, lastFrame, exportVars, lastSuccess,
                 pageVars, sphericalDelta>>

resetTransforms ==
  /\ TransformPanelShown
  /\ CallsLeft
  /\ position' = ZeroVec
  /\ scale' = OneScale
  /\ rotation' = ZeroVec
  /\ meshes' = ApplyTransform(meshes, ZeroVec, OneScale, ZeroVec)
  /\ edits' = edits + 1
  /\ UNCHANGED <<mounted, stateVars, isDarkMode, refVars, viewVars, pending,
                 requestCount, lastFrame, exportVars, lastSuccess,
                 pageVars, sphericalDelta>>

(* ---------------------------- handleExport ---------------------------- *)
NoModelMessage == "No model to export"

(* STLExporter.parse(mesh): every vertex of the geometry multiplied by the *)
(* mesh's matrixWorld as it stands; the exporter does not recompute it.    *)
(* The file is kept as the geometry and the matrix baked into it.          *)
ExportStl(m) ==
  [name |-> "model.stl", geometry |-> m.geometry, baked |-> m.matrixWorld]

(* An export that downloads an empty file when there is no mesh.           *)
handleExportEmptyFile ==
  /\ IF meshRef = 0
       THEN /\ download' = <<[name |-> "model.stl"]>>
            /\ UNCHANGED alert
       ELSE /\ download' = <<ExportStl(meshes[meshRef])>>
            /\ UNCHANGED alert
  /\ UNCHANGED <<mounted, stateVars, transformVars, isDarkMode, refVars, viewVars,
                 meshes, pending, requestCount, edits, lastFrame, lastSuccess,
                 pageVars, sphericalDelta>>

(* The body of handleExport.                                               *)
handleExport ==
  /\ IF meshRef = 0
       THEN /\ alert' = NoModelMessage
            /\ UNCHANGED download
       ELSE /\ download' = <<ExportStl(meshes[meshRef])>>
            /\ UNCHANGED alert
  /\ UNCHANGED <<mounted, stateVars, transformVars, isDarkMode, refVars, viewVars,
                 meshes, pending, requestCount, edits, lastFrame, lastSuccess,
                 pageVars, sphericalDelta>>

(* The handler invoked on the mounted component.                           *)
Export == mounted /\ handleExport

(* "Download STL" is rendered inside the generated-code box, and only when *)
(* meshRef.current is set.                                                 *)
DownloadButtonShown == mounted /\ generatedCode # "" /\ meshRef # 0
ExportClick == DownloadButtonShown /\ handleExport

(* ------------------ session, routes and the chat panel ----------------- *)
Users == {"alice", "bob"}
Routes == {"/", "/home", "/workspace"}
ProtectedRoutes == {"/home", "/workspace"}
ChatInputs == {<<>>, <<" ">>, <<"h">>, <<" ", "y", " ">>}
ChatTimes == {1, 2}

homeVars == <<mounted, stateVars, transformVars, isDarkMode, refVars, viewVars,
              meshes, pending, requestCount, edits, lastFrame, exportVars,
              lastSuccess, sphericalDelta>>

(* useUser(): the session fetch ends with a profile or with none.          *)
SessionResolves(u) ==
  /\ isLoading
  /\ isLoading' = FALSE
  /\ user' = u
  /\ UNCHANGED <<route, messages, input, homeVars>>

(* A guard that redirects as soon as no user is present.                   *)
AuthGuardShouldRedirectEarly(fetching, u) == u = Null

(* AuthGuard effect: if (!isLoading && !user) router.push('/').            *)
AuthGuardShouldRedirect(fetching, u) == ~fetching /\ u = Null

(* AuthGuard render: Loading..., null or the children.                     *)
AuthGuardRender(fetching, u, children) ==
  IF fetching THEN "Loading..." ELSE IF u = Null THEN "null" ELSE children

(* A landing page that redirects whatever the session.                     *)
LandingShouldRedirectAlways(u) == TRUE

(* LandingPage effect: if (user) router.push('/home').                     *)
LandingShouldRedirect(u) == u # Null

(* LandingPage render.                                                     *)
LandingRender(fetching) == IF fetching THEN "Loading..." ELSE "LandingPage"

(* HomePage and WorkspacePage wrap their content in AuthGuard.             *)
PageContent(r) == IF r = "/home" THEN "HomeContent" ELSE "WorkspaceContent"

(* What the page at the current route renders.                             *)
Rendered ==
  IF route \in ProtectedRoutes
    THEN AuthGuardRender(isLoading, user, PageContent(route))
    ELSE LandingRender(isLoading)

(* The effect of the page at the current route has a redirect to make.     *)
RedirectDue ==
  \/ route = "/" /\ LandingShouldRedirect(user)
  \/ route \in ProtectedRoutes /\ AuthGuardShouldRedirect(isLoading, user)

LandingRedirect ==
  /\ route = "/"
  /\ LandingShouldRedirect(user)
  /\ route' = "/home"
  /\ UNCHANGED <<isLoading, user, messages, input, homeVars>>

AuthGuardRedirect ==
  /\ route \in ProtectedRoutes
  /\ AuthGuardShouldRedirect(isLoading, user)
  /\ route' = "/"
  /\ messages' = <<>>
  /\ input' = <<>>
  /\ UNCHANGED <<isLoading, user, homeVars>>

(* The user follows a link or enters a URL; the page left is unmounted and *)
(* a ChatPanel mounted later starts from its initial state.                *)
Navigate(r) ==
  /\ r # route
  /\ route' = r
  /\ messages' = <<>>
  /\ input' = <<>>
  /\ UNCHANGED <<isLoading, user, homeVars>>

(* ChatPanel is rendered by WorkspaceContent.                              *)
ChatShown == Rendered = "WorkspaceContent"

(* input onChange.                                                         *)
SetInput(s) ==
  /\ ChatShown
  /\ input # s
  /\ input' = s
  /\ UNCHANGED <<isLoading, user, route, messages, homeVars>>

(* A list that puts the new message first.                                 *)
PrependMessage(prev, newMessage) == <<newMessage>> \o prev

(* setMessages((prev) => [...prev, newMessage]).                           *)
AppendMessage(prev, newMessage) == Append(prev, newMessage)

(* ChatPanel.handleSend; now is the value of Date.now().                   *)
handleSend(now) ==
  IF Trim(input) = <<>>
    THEN UNCHANGED <<messages, input>>
    ELSE /\ Len(messages) < MaxMessages
         /\ messages' =
              AppendMessage(messages, [id |-> ToString(now), text |-> Trim(input)])
         /\ input' = <<>>

(* The Send button, or Enter without Shift in the input.                   *)
Send ==
  /\ ChatShown
  /\ \E now \in ChatTimes : handleSend(now)
  /\ UNCHANGED <<isLoading, user, route, homeVars>>

(* --------------------------- specification ----------------------------- *)
(* Every step but the Enter key in the prompt textarea.                    *)
Responses ==
  \/ \E r \in pending : FetchRejected(r)
  \/ \E r \in pending, text \in ErrorTexts : ResponseNotOk(r, text)
  \/ \E r \in pending, data \in ServerData : ResponseOk(r, data)

TransformEdits ==
  \/ \E axis \in Axes, value \in PositionInputs : updatePosition(axis, value)
  \/ \E axis \in Axes, value \in ScaleInputs : updateScale(axis, value)
  \/ \E axis \in Axes, value \in RotationInputs : updateRotation(axis, value)
  \/ resetTransforms

Viewport ==
  \/ ToggleTheme
  \/ Unmount
  \/ \E i \in 1..Len(renderers) : Frame(i)

TypePrompt == \E s \in Prompts : SetPrompt(s)

Next ==
  \/ TypePrompt
  \/ GenerateClick
  \/ GenerateKey
  \/ Responses
  \/ TransformEdits
  \/ ExportClick
  \/ Viewport

Spec == Init /\ [][Next]_vars

(* The same program with a user who lets each attempt complete before      *)
(* pressing Enter again.                                                   *)
GenerateKeyWhenIdle == pending = {} /\ GenerateKey

NextSerial ==
  \/ TypePrompt
  \/ GenerateClick
  \/ GenerateKeyWhenIdle
  \/ Responses
  \/ TransformEdits
  \/ ExportClick
  \/ Viewport

SpecSerial == Init /\ [][NextSerial]_vars

(* The same program with a user who leaves the transform panel alone.      *)
NextGeneration ==
  \/ TypePrompt
  \/ GenerateClick
  \/ GenerateKey
  \/ Responses
  \/ Viewport

SpecGeneration == Init /\ [][NextGeneration]_vars

(* Generation alone, each attempt completing before the next trigger.      *)
NextSerialGeneration ==
  \/ TypePrompt
  \/ GenerateClick
  \/ GenerateKeyWhenIdle
  \/ Responses
  \/ Viewport

SpecSerialGeneration == Init /\ [][NextSerialGeneration]_vars

(* The transform panel on one scene, with the Generate button as the only  *)
(* trigger.                                                                *)
NextTransform ==
  \/ TypePrompt
  \/ GenerateClick
  \/ Responses
  \/ TransformEdits

SpecTransform == Init /\ [][NextTransform]_vars

(* Generation with handleExport invoked at any moment, with or without a   *)
(* mesh.                                                                   *)
NextExport ==
  \/ TypePrompt
  \/ GenerateClick
  \/ Responses
  \/ Export

SpecExport == Init /\ [][NextExport]_vars

(* The transform panel, the Download button and the render loop on one     *)
(* scene.                                                                  *)
Frames == \E i \in 1..Len(renderers) : Frame(i)

NextTransformExport ==
  \/ TypePrompt
  \/ GenerateClick
  \/ Responses
  \/ TransformEdits
  \/ ExportClick
  \/ Frames

SpecTransformExport == Init /\ [][NextTransformExport]_vars

(* Generation while the user orbits the camera.                            *)
NextCamera ==
  \/ TypePrompt
  \/ GenerateClick
  \/ Responses
  \/ Orbit
  \/ Frames

SpecCamera == Init /\ [][NextCamera]_vars

(* The network answers every request that was sent.                        *)
SpecSerialGenerationFair ==
  SpecSerialGeneration /\ WF_vars(Responses)

(* The session, the router and the workspace chat.                         *)
Session == \E u \in Users \cup {Null} : SessionResolves(u)

Navigation ==
  \/ \E r \in Routes : Navigate(r)
  \/ LandingRedirect
  \/ AuthGuardRedirect

Chat ==
  \/ \E s \in ChatInputs : SetInput(s)
  \/ Send

NextPages ==
  \/ Session
  \/ Navigation
  \/ Chat

SpecPages == Init /\ [][NextPages]_vars

(* Effects run after every render, so a redirect that is due is made.      *)
SpecPagesFair ==
  SpecPages /\ WF_vars(LandingRedirect) /\ WF_vars(AuthGuardRedirect)

(* The generator page while the session is fetched.                        *)
NextSessionHome ==
  \/ Session
  \/ TypePrompt
  \/ GenerateClick
  \/ Responses
  \/ Export

SpecSessionHome == Init /\ [][NextSessionHome]_vars

TypeOK ==
  /\ mounted \in BOOLEAN /\ loading \in BOOLEAN /\ isDarkMode \in BOOLEAN
  /\ prompt \in Prompts
  /\ generatedCode \in Codes \cup {""}
  /\ currentStlData \in StlPayloads \cup {Null}
  /\ meshRef \in 0..Len(meshes)
  /\ sceneRef \in 1..Len(scenes)
  /\ requestCount \in 0..MaxRequests
  /\ edits \in 0..MaxCalls
  /\ isLoading \in BOOLEAN
  /\ user \in Users \cup {Null}
  /\ route \in Routes
  /\ input \in ChatInputs
  /\ Len(messages) <= MaxMessages

(* ------------------------------ claims --------------------------------- *)

(* C1: at most one generation request is in flight at any time.            *)
C1_AtMostOneInFlight == Cardinality(pending) <= 1

(* C2: an attempt that ends with a non-success HTTP response leaves the    *)
(* stored code and payload at the values they had when the attempt started *)
(* (the values the invocation read), and its completion leaves the prompt, *)
(* the active mesh and the transform state as they are.                    *)
C2_FailedAttemptAltersNothing ==
  [][\A r \in pending, text \in ErrorTexts :
       ResponseNotOk(r, text) =>
         /\ generatedCode' = r.closure.generatedCode
         /\ currentStlData' = r.closure.currentStlData
         /\ UNCHANGED <<prompt, meshRef, meshes, scenes, position, scale, rotation>>]_vars

(* C3: the stored code and the stored payload are both present or both     *)
(* absent in every reachable state.                                        *)
C3_CodeAndPayloadTogether == (generatedCode # "") <=> (currentStlData # Null)

(* C4: the completion of an attempt applies all four success effects (new  *)
(* mesh active and in the scene, code stored, payload stored, prompt       *)
(* cleared) or none of them, leaving scene, meshes, code, payload and      *)
(* prompt as they were.                                                    *)
AllEffectsApplied ==
  /\ Len(meshes') = Len(meshes) + 1
  /\ meshRef' = Len(meshes')
  /\ meshRef' \in scenes'[sceneRef']
  /\ \E data \in ServerData :
       generatedCode' = data.openscad_code /\ currentStlData' = data.stl_data
  /\ prompt' = <<>>
NoEffectApplied ==
  UNCHANGED <<meshRef, meshes, scenes, generatedCode, currentStlData, prompt>>
C4_AllOrNothing ==
  [][\A r \in pending :
       (r \notin pending') => (AllEffectsApplied \/ NoEffectApplied)]_vars

(* C5: while a mesh is active, the stored transform equals the transform   *)
(* applied to it, rotation being degrees stored and radians applied.       *)
C5_TransformInSync ==
  meshRef # 0 =>
    /\ meshes[meshRef].position = position
    /\ meshes[meshRef].scale = scale
    /\ meshes[meshRef].rotation = RotationRadians(rotation)

(* C6: a response that arrives after the component was unmounted is        *)
(* discarded: no scene gains a mesh, the active mesh reference and the     *)
(* meshes stay as they are, and the session state is not updated.          *)
C6_ResponseAfterTeardownDiscarded ==
  [][\A r \in pending :
       (~mounted /\ r \notin pending') =>
         UNCHANGED <<meshRef, scenes, meshes, stateVars>>]_vars

(* C7: no frame renders with a disposed renderer, and at most one render   *)
(* loop is running.                                                        *)
RunningLoops == {i \in 1..Len(renderers) : renderers[i].animating}
C7_NoRenderAfterTeardown ==
  /\ ~lastFrame.disposed
  /\ Cardinality(RunningLoops) <= 1

C9_ReplacedMeshFullyDisposed ==
  \A m \in 1..Len(meshes) :
    m # meshRef =>
      /\ meshes[m].geometryDisposed /\ meshes[m].materialDisposed
      /\ meshes[m].edgesDisposed /\ meshes[m].lineMaterialDisposed

(* C10: a generate trigger with a prompt that is non-empty after trimming  *)
(* issues exactly one request; with an empty or whitespace-only prompt it  *)
(* issues none and reports the validation error.                           *)
C10_OneRequestPerValidPrompt ==
  [][(GenerateClick \/ GenerateKey) =>
       IF Trim(prompt) # <<>>
         THEN /\ requestCount' = requestCount + 1
              /\ Cardinality(pending') = Cardinality(pending) + 1
              /\ \E r \in pending' \ pending : r.body.prompt = prompt
         ELSE /\ requestCount' = requestCount
              /\ pending' = pending
              /\ error' = ValidationMessage]_vars
C10_Witness ==
  /\ requestCount = 1
  /\ pending = {}
  /\ lastSuccess = NoResponse
  /\ prompt = <<" ">>
  /\ error = ValidationMessage

(* C11: a generate trigger that validation rejects (prompt empty after     *)
(* trimming) changes nothing but the error message: the in-flight flag,    *)
(* the prompt, the stored code and payload, the active mesh, the scenes    *)
(* and the transform state stay as they are, and no request is issued.     *)
C11_RejectionChangesOnlyError ==
  [][((GenerateClick \/ GenerateKey) /\ Trim(prompt) = <<>>) =>
       UNCHANGED <<loading, prompt, generatedCode, currentStlData, meshRef,
                   meshes, scenes, position, scale, rotation, pending>>]_vars
C11_Witness ==
  /\ error = ValidationMessage
  /\ prompt = <<" ">>
  /\ generatedCode # ""
  /\ currentStlData # Null
  /\ meshRef # 0
  /\ ~loading

C13_BodyPartsTogether ==
  \A r \in pending :
    /\ "prompt" \in DOMAIN r.body
    /\ ("current_stl_data" \in DOMAIN r.body) <=> ("current_code" \in DOMAIN r.body)
C13_Witness ==
  \E r \in pending :
    /\ r.closure.currentStlData # Null
    /\ r.closure.generatedCode = ""
    /\ DOMAIN r.body = {"prompt"}

(* C14: when an attempt receives a non-success response with body T, the   *)
(* error message of the mounted page becomes exactly T and loading ends,   *)
(* and neither the start of an attempt nor that response touches the       *)
(* active mesh: same reference, same scene membership, same resources.     *)
C14_FailureReportsResponseText ==
  /\ [][\A r \in pending, text \in ErrorTexts :
          ResponseNotOk(r, text) =>
            /\ mounted => (error' = text /\ ~loading')
            /\ UNCHANGED <<meshRef, meshes, scenes>>]_vars
  /\ [][(GenerateClick \/ GenerateKey) => UNCHANGED <<meshRef, meshes, scenes>>]_vars
C14_Witness ==
  /\ error = "bad prompt"
  /\ pending = {}
  /\ ~loading
  /\ meshRef # 0
  /\ meshRef \in scenes[sceneRef]
  /\ ~meshes[meshRef].geometryDisposed
  /\ ~meshes[meshRef].materialDisposed

(* C15: after every successful generation the mounted page stores exactly  *)
(* the openscad_code and stl_data of that response, the prompt is empty    *)
(* and there is no error message.                                          *)
C15_SuccessStoresResponse ==
  [][\A r \in pending, data \in ServerData :
       (mounted /\ ResponseOk(r, data) /\ Decodes(data)) =>
         /\ generatedCode' = data.openscad_code
         /\ currentStlData' = data.stl_data
         /\ prompt' = <<>>
         /\ error' = Null]_vars

(* C16: every component of the stored scale and of the scale applied to    *)
(* any mesh is at least 0.1 in every reachable state, and updateScale with *)
(* an input below 0.1 (0 and -5 included) stores exactly 0.1 on that axis  *)
(* and applies it to the active mesh.                                      *)
C16_ScaleAtLeastMinimum ==
  /\ [](\A axis \in Axes : scale[axis] >= ScaleMinTenths)
  /\ [](\A m \in 1..Len(meshes), axis \in Axes :
          meshes[m].scale[axis] >= ScaleMinTenths)
  /\ [][\A axis \in Axes, value \in ScaleInputs :
          (updateScale(axis, value) /\ value < ScaleMinTenths) =>
            /\ scale'[axis] = ScaleMinTenths
            /\ meshes'[meshRef].scale[axis] = ScaleMinTenths]_vars
C16_Witness ==
  /\ meshRef # 0
  /\ scale.y = ScaleMinTenths
  /\ meshes[meshRef].scale.y = ScaleMinTenths
  /\ edits = 1

(* C17: resetTransforms stores position (0,0,0), scale (1,1,1) and         *)
(* rotation (0,0,0) and applies the identity transform to the active mesh, *)
(* whatever the state it starts from; a reset that follows a reset changes *)
(* neither the stored transform nor any mesh.                              *)
C17_ResetIsIdempotent ==
  /\ [][resetTransforms =>
          /\ position' = ZeroVec /\ scale' = OneScale /\ rotation' = ZeroVec
          /\ meshRef' = meshRef
          /\ meshRef # 0 =>
                /\ meshes'[meshRef].position = ZeroVec
                /\ meshes'[meshRef].scale = OneScale
                /\ meshes'[meshRef].rotation = ZeroVec]_vars
  /\ [][(resetTransforms /\ edits > 0 /\ position = ZeroVec /\ scale = OneScale
            /\ rotation = ZeroVec) =>
          UNCHANGED <<position, scale, rotation, meshes>>]_vars
C17_Witness ==
  /\ edits = 2
  /\ position = ZeroVec /\ scale = OneScale /\ rotation = ZeroVec
  /\ meshRef # 0
  /\ meshes[meshRef].position = ZeroVec
  /\ meshes[meshRef].scale = OneScale
  /\ meshes[meshRef].rotation = ZeroVec

(* C18: handleExport invoked with no active mesh downloads nothing and     *)
(* changes no state; it only shows the no-model notice.                    *)
C18_ExportWithoutMeshOnlyNotifies ==
  [][(Export /\ meshRef = 0) =>
       /\ alert' = NoModelMessage
       /\ UNCHANGED <<download, mounted, stateVars, transformVars, isDarkMode,
                      refVars, viewVars, meshes, pending>>]_vars
C18_Witness ==
  /\ alert = NoModelMessage
  /\ meshRef = 0
  /\ download = <<>>
  /\ generatedCode # ""

(* C19: the file an export downloads is the geometry of the active mesh    *)
(* with the stored position, scale and rotation baked in, whatever         *)
(* transform handlers ran before the export.                               *)
C19_ExportBakesStoredTransform ==
  [][(mounted /\ meshRef # 0 /\ handleExport) =>
       download' =
         <<[name |-> "model.stl",
            geometry |-> meshes[meshRef].geometry,
            baked |-> [position |-> position, scale |-> scale,
                       rotation |-> RotationRadians(rotation)]]>>]_vars

(* C20: every camera is at a strictly positive distance from the origin,   *)
(* also after the camera fit of a mesh whose bounding box has size         *)
(* (0,0,0).                                                                *)
C20_CameraKeepsItsDistance ==
  \A c \in 1..Len(cameras) : cameras[c] # ZeroVec

(* C21: the generator's viewport exists, and so generation and export are  *)
(* reachable, only for an authenticated session: never while the session   *)
(* is loading and never while it is anonymous.                             *)
C21_ViewportNeedsSession ==
  (mounted /\ sceneRef # 0) => (~isLoading /\ user # Null)

(* C22: on a protected route the guard renders its children exactly when   *)
(* the session is resolved with a user, renders nothing for an anonymous   *)
(* session, and redirects to "/" only when the session is resolved         *)
(* without a user, never while it is loading.                              *)
C22_GuardRendersForUserOnly ==
  /\ [](route \in ProtectedRoutes =>
          /\ (Rendered = PageContent(route)) <=> (~isLoading /\ user # Null)
          /\ (~isLoading /\ user = Null) => Rendered = "null"
          /\ isLoading => Rendered = "Loading...")
  /\ [][AuthGuardRedirect =>
          (~isLoading /\ user = Null /\ route' = "/")]_vars

C22_Witness ==
  /\ route = "/workspace"
  /\ ~isLoading
  /\ user = "alice"
  /\ Rendered = "WorkspaceContent"

(* C29: the landing page and the guard never redirect against each other:  *)
(* their conditions exclude each other, a redirect ends on a page with no  *)
(* redirect to make, a page with no redirect to make is left only by the   *)
(* user, and a redirect that is due is followed by a page that has none.   *)
C29_RedirectsSettle ==
  /\ [](~(LandingShouldRedirect(user) /\ AuthGuardShouldRedirect(isLoading, user)))
  /\ [][(LandingRedirect \/ AuthGuardRedirect) => ~RedirectDue']_vars
  /\ [][(~RedirectDue /\ route' # route) => \E r \in Routes : Navigate(r)]_vars
  /\ (RedirectDue ~> ~RedirectDue)

C29_Witness ==
  /\ route = "/home"
  /\ ~isLoading
  /\ user = "bob"
  /\ ~RedirectDue

(* C30: the message list of the chat only grows at its end: a send with a  *)
(* blank input changes neither the list nor the input; any other send      *)
(* appends exactly one message carrying the trimmed input, leaves the      *)
(* earlier messages and their order as they were, and clears the input;    *)
(* no other step of a shown panel changes the list.                        *)
C30_ChatAppendsTrimmedMessage ==
  /\ [][Send =>
          IF Trim(input) = <<>>
            THEN messages' = messages /\ input' = input
            ELSE /\ Len(messages') = Len(messages) + 1
                 /\ SubSeq(messages', 1, Len(messages)) = messages
                 /\ messages'[Len(messages')].text = Trim(input)
                 /\ input' = <<>>]_vars
  /\ [][(ChatShown /\ ChatShown' /\ ~Send) => messages' = messages]_vars

C30_Witness ==
  /\ Len(messages) = 2
  /\ messages[1].text = <<"h">>
  /\ messages[2].text = <<"y">>
  /\ input = <<>>

(* C23: every attempt that was sent and whose network call completes ends  *)
(* handled: the completion step of a mounted page clears loading and, on   *)
(* each failing outcome (rejected fetch, non-success response, payload     *)
(* that does not decode or parse), stores the failure's message as the     *)
(* error string; a mounted page that is loading eventually stops loading.  *)
C23_AttemptEndsHandled ==
  /\ [][\A r \in pending :
          /\ (mounted /\ FetchRejected(r)) =>
               (~loading' /\ error' = NetworkMessage)
          /\ \A text \in ErrorTexts :
               (mounted /\ ResponseNotOk(r, text)) =>
                 (~loading' /\ error' = text)
          /\ \A data \in ServerData :
               (mounted /\ ResponseOk(r, data)) =>
                 /\ ~loading'
                 /\ DecodeFails(data) => error' = AtobMessage
                 /\ ParseFails(data) => error' = ParseMessage
                 /\ Decodes(data) => error' = error]_vars
  /\ ((mounted /\ loading) ~> (~loading \/ ~mounted))

C23_Witness ==
  /\ mounted
  /\ requestCount = 1
  /\ pending = {}
  /\ ~loading
  /\ error = NetworkMessage

(* C24: a position, scale or rotation edit changes only the component it   *)
(* addresses, in the stored transform and on the active mesh alike: the    *)
(* other two components of that vector, the other two vectors, the session *)
(* state and the identity of the active mesh stay as they were.            *)
OtherAxesKept(axis, old, new) == \A a \in Axes \ {axis} : new[a] = old[a]
C24_EditChangesOnlyItsComponent ==
  [][\A axis \in Axes :
       /\ \A value \in PositionInputs :
            updatePosition(axis, value) =>
              /\ OtherAxesKept(axis, position, position')
              /\ OtherAxesKept(axis, meshes[meshRef].position,
                               meshes'[meshRef].position)
              /\ meshes'[meshRef].scale = meshes[meshRef].scale
              /\ meshes'[meshRef].rotation = meshes[meshRef].rotation
              /\ UNCHANGED <<scale, rotation, stateVars, meshRef>>
       /\ \A value \in ScaleInputs :
            updateScale(axis, value) =>
              /\ OtherAxesKept(axis, scale, scale')
              /\ OtherAxesKept(axis, meshes[meshRef].scale, meshes'[meshRef].scale)
              /\ meshes'[meshRef].position = meshes[meshRef].position
              /\ meshes'[meshRef].rotation = meshes[meshRef].rotation
              /\ UNCHANGED <<position, rotation, stateVars, meshRef>>
       /\ \A value \in RotationInputs :
            updateRotation(axis, value) =>
              /\ OtherAxesKept(axis, rotation, rotation')
              /\ OtherAxesKept(axis, meshes[meshRef].rotation,
                               meshes'[meshRef].rotation)
              /\ meshes'[meshRef].position = meshes[meshRef].position
              /\ meshes'[meshRef].scale = meshes[meshRef].scale
              /\ UNCHANGED <<position, scale, stateVars, meshRef>>]_vars

(* C25: after a successful generation the x, y and z of the current camera *)
(* all equal the one distance computed from the largest dimension of the   *)
(* new mesh's bounding box, whatever the camera's position before and      *)
(* however the user orbited.                                               *)
C25_CameraFitDependsOnMeshOnly ==
  [][\A r \in pending, data \in ServerData :
       (ResponseOk(r, data) /\ Decodes(data)) =>
         LET cameraZ ==
               FitDistance(MaxDim(BoxSize(CenterGeometry(ParseStl(Atob(data.stl_data))))))
         IN cameras'[cameraRef] = Vec(cameraZ, cameraZ, cameraZ)]_vars

(* C26: whenever there is an active mesh it is a child of the current      *)
(* scene and neither its geometry nor its material is disposed, after any  *)
(* sequence of generations and theme toggles.                              *)
C26_ActiveMeshIsShown ==
  meshRef # 0 =>
    /\ sceneRef # 0
    /\ meshRef \in scenes[sceneRef]
    /\ ~meshes[meshRef].geometryDisposed
    /\ ~meshes[meshRef].materialDisposed

(* C27: on the mounted page loading is TRUE exactly when a request has     *)
(* been sent and has not completed, for every interleaving of attempts     *)
(* and completions.                                                        *)
C27_LoadingIffRequestInFlight ==
  mounted => (loading <=> pending # {})

(* C28: the Download STL button is offered in every state of the mounted   *)
(* page that has an active mesh, also after a later attempt has failed.    *)
C28_DownloadOfferedWithMesh ==
  (mounted /\ meshRef # 0) => DownloadButtonShown

====
